---------------------------- MODULE Spec2Model ----------------------------
(***************************************************************************)
(* Model of the ClaraVerse remote-server installer                         *)
(* (claraverse-agent-deployement/install.py): the interactive flow         *)
(* ClaraVerseInstaller.run() as a state machine, one action per blocking   *)
(* step (child process, console read, HTTP request, sleep).                *)
(***************************************************************************)
EXTENDS Integers, Sequences, FiniteSets, TLC

(* ------------------------------------------------------------------ *)
(* Bounds and program constants                                       *)
(* ------------------------------------------------------------------ *)

\* Longest line the operator types at the selection prompt (model bound).
MaxLen == 3

\* The count of prompt rounds is kept up to this number (history only:
\* the prompt itself may be repeated without limit).
PromptCap == 2

\* install.py:288  max_attempts = 24
max_attempts == 24

(* ------------------------------------------------------------------ *)
(* The service catalog (install.py:44-66), in dict insertion order    *)
(* ------------------------------------------------------------------ *)

service_list == << "clara_comfyui", "clara_python", "clara_n8n" >>

ServiceIds == { service_list[i] : i \in 1..Len(service_list) }

Catalog ==
    [ clara_comfyui |-> [port |-> 8188, health_path |-> "/"],
      clara_python  |-> [port |-> 5001, health_path |-> "/health"],
      clara_n8n     |-> [port |-> 5678, health_path |-> "/healthz"] ]

\* __init__: every 'selected' field is False.
NoneSelected == [ id \in ServiceIds |-> FALSE ]

(* ------------------------------------------------------------------ *)
(* Strings: a line of input is a sequence of characters.  "sup2" is   *)
(* U+00B2 (superscript two): str.isdigit() is true of it, int() is    *)
(* not defined on it.                                                 *)
(* ------------------------------------------------------------------ *)

Chars == { "1", "2", "3", "0", "4", ",", " ", "a", "A", "l", "L", "sup2" }

Lines == UNION { [1..n -> Chars] : n \in 0..MaxLen }

\* str.strip(): leading and trailing whitespace removed.
RECURSIVE LStrip(_)
LStrip(s) ==
    IF s # << >> /\ Head(s) = " " THEN LStrip(Tail(s)) ELSE s

RECURSIVE RStrip(_)
RStrip(s) ==
    IF s # << >> /\ s[Len(s)] = " " THEN RStrip(SubSeq(s, 1, Len(s) - 1)) ELSE s

Strip(s) == RStrip(LStrip(s))

\* str.upper(), character by character.
UpperChar(c) ==
    CASE c = "a" -> "A"
      [] c = "l" -> "L"
      [] OTHER   -> c

Upper(s) == [ i \in 1..Len(s) |-> UpperChar(s[i]) ]

\* str.replace(old, ''): every occurrence of the character removed.
RECURSIVE Remove(_, _)
Remove(s, c) ==
    IF s = << >> THEN << >>
    ELSE IF Head(s) = c THEN Remove(Tail(s), c)
    ELSE << Head(s) >> \o Remove(Tail(s), c)

\* str.isdigit()
IsDigit(c) == c \in { "0", "1", "2", "3", "4", "sup2" }

\* int(char) is defined (no ValueError) on the decimal digits only.
IntDefined(c) == c \in { "0", "1", "2", "3", "4" }

\* int(char)
Int_(c) ==
    CASE c = "0" -> 0
      [] c = "1" -> 1
      [] c = "2" -> 2
      [] c = "3" -> 3
      [] c = "4" -> 4

(* ------------------------------------------------------------------ *)
(* select_services: the pure parts (install.py:202-222)               *)
(* ------------------------------------------------------------------ *)

\* WITHOUT upper(): only the capital letter is the wildcard.
IsAllChoice_NoUpper(choice) == choice = << "A" >>

\* install.py:202  choice.upper() == 'A'
IsAllChoice(choice) == Upper(choice) = << "A" >>

\* install.py:203-204
SelectAll(sel) == [ id \in ServiceIds |-> TRUE ]

\* the reset forgotten: earlier selections are kept.
ResetSelections_Keep(sel) == sel

\* install.py:209-210
ResetSelections(sel) == [ id \in ServiceIds |-> FALSE ]

\* the lower bound of the range test forgotten: Python's
\* service_list[-1] is the last entry, larger indices raise IndexError
\* (here: select nothing).
IndexInRange_NoLower(idx) == idx < Len(service_list)

\* install.py:217  0 <= idx < len(service_list)
IndexInRange(idx) == 0 <= idx /\ idx < Len(service_list)

\* Python list indexing with a 0-based, possibly negative, index.
PyIndex(idx) == IF idx < 0 THEN Len(service_list) + idx + 1 ELSE idx + 1

\* install.py:215-218, one character of the cleaned input.
ApplyChar(sel, c) ==
    IF IsDigit(c)
    THEN LET idx == Int_(c) - 1
         IN  IF IndexInRange(idx)
             THEN [ sel EXCEPT ![service_list[PyIndex(idx)]] = TRUE ]
             ELSE sel
    ELSE sel

\* install.py:214  the characters the for loop visits.
Cleaned(choice) == Remove(Remove(choice, ","), " ")

\* The for loop raises ValueError at the first digit character int()
\* rejects; the characters before it have been applied.
RECURSIVE Raises(_)
Raises(s) ==
    IF s = << >> THEN FALSE
    ELSE IF IsDigit(Head(s)) /\ ~IntDefined(Head(s)) THEN TRUE
    ELSE Raises(Tail(s))

\* install.py:214-218: the loop, up to the character that raises.
RECURSIVE ApplyChars(_, _)
ApplyChars(sel, s) ==
    IF s = << >> THEN sel
    ELSE IF IsDigit(Head(s)) /\ ~IntDefined(Head(s)) THEN sel
    ELSE ApplyChars(ApplyChar(sel, Head(s)), Tail(s))

\* the emptiness test forgotten: the loop is left after any parse.
AnySelected_Always(sel) == TRUE

\* install.py:221  any(service['selected'] ...)
AnySelected(sel) == \E id \in ServiceIds : sel[id]

\* install.py:241  the selected identifiers, in catalog order.
SelectedList(sel) == SelectSeq(service_list, LAMBDA id : sel[id])

SeqToSet(s) == { s[i] : i \in 1..Len(s) }

SelectedSet(sel) == { id \in ServiceIds : sel[id] }

(* ------------------------------------------------------------------ *)
(* State                                                              *)
(* ------------------------------------------------------------------ *)

VARIABLES
    pc,                 \* position in run()
    selected,           \* self.services[id]['selected']
    docker_available,   \* self.docker_available
    gpu_available,      \* self.gpu_available
    choice,             \* select_services: the line read in this round
    selected_services,  \* deploy_services: the list built at line 241
    attempt,            \* wait_for_services: loop variable
    idx,                \* wait_for_services: catalog position of the inner loop
    all_healthy,        \* wait_for_services: flag of the current round
    outcome,            \* how run() ended ("running" until it does)
    \* history (not program state): what the run has done so far
    invoked,            \* child processes started, in order: <<command, arguments>>
    prompts,            \* selection prompts shown (counted up to PromptCap)
    chosen,             \* the selection as it stood when select_services returned
    roundLog,           \* requests of the current health round: <<id, healthy>>
    rounds,             \* health rounds begun by wait_for_services
    polled,             \* services whose health endpoint was ever requested
    sleeps,             \* number of 5-second sleeps taken by wait_for_services
    waitResult,         \* how wait_for_services returned
    summaryShown,       \* show_success_message has printed the summary
    interrupted         \* a KeyboardInterrupt has been delivered

vars == << pc, selected, docker_available, gpu_available, choice,
           selected_services, attempt, idx, all_healthy, outcome,
           invoked, prompts, chosen, roundLog, rounds, polled, sleeps,
           waitResult, summaryShown, interrupted >>

NoChoice == << "<unset>" >>

Init ==
    /\ pc = "banner"
    /\ selected = NoneSelected
    /\ docker_available = FALSE
    /\ gpu_available = FALSE
    /\ choice = NoChoice
    /\ selected_services = << >>
    /\ attempt = 0
    /\ idx = 0
    /\ all_healthy = FALSE
    /\ outcome = "running"
    /\ invoked = << >>
    /\ prompts = 0
    /\ chosen = {}
    /\ roundLog = << >>
    /\ rounds = 0
    /\ polled = {}
    /\ sleeps = 0
    /\ waitResult = "none"
    /\ summaryShown = FALSE
    /\ interrupted = FALSE

(* ------------------------------------------------------------------ *)
(* Helpers of the actions                                             *)
(* ------------------------------------------------------------------ *)

\* A child process started by run_command (install.py:128-140): its
\* command, its arguments and whether run_command reported success
\* (exit code 0; a nonzero exit, a timeout or any other exception is
\* False).
Call(cmd, args, ok) == [cmd |-> cmd, args |-> args, ok |-> ok]

\* run() returns and main() exits (install.py:457-458).
Finish(o) ==
    /\ pc' = "exit"
    /\ outcome' = o

\* install.py:458  sys.exit(0 if success else 1)
ExitCode == IF outcome = "success" THEN 0 ELSE 1

selectVars == << selected, choice, prompts, chosen >>
probeVars  == << docker_available, gpu_available >>
healthVars == << attempt, idx, all_healthy, roundLog, rounds, polled,
                 sleeps, waitResult >>

(* ------------------------------------------------------------------ *)
(* run(): banner and environment probing (install.py:395-407)         *)
(* ------------------------------------------------------------------ *)

\* install.py:395-399  clear_screen, print_banner (sleeps 2 s), header
Banner ==
    /\ pc = "banner"
    /\ pc' = "docker_version"
    /\ UNCHANGED << selectVars, probeVars, healthVars, selected_services,
                    outcome, invoked, summaryShown, interrupted >>

\* the early return forgotten: a failed version check is ignored.
VersionCheckFailed_Never(success) == FALSE

\* install.py:148  if not success
VersionCheckFailed(success) == ~success

\* install.py:155  if not success
DaemonCheckFailed(success) == ~success

\* install.py:147-151 and 402-404: docker --version
CheckDockerVersion ==
    /\ pc = "docker_version"
    /\ \E success \in BOOLEAN :
          /\ invoked' = Append(invoked, Call("docker --version", << >>, success))
          /\ IF VersionCheckFailed(success)
             THEN Finish("probe_failed")
             ELSE pc' = "docker_ps" /\ outcome' = outcome
    /\ UNCHANGED << selectVars, probeVars, healthVars, selected_services,
                    summaryShown, interrupted >>

\* install.py:154-161 and 402-404: docker ps
CheckDockerPs ==
    /\ pc = "docker_ps"
    /\ \E success \in BOOLEAN :
          /\ invoked' = Append(invoked, Call("docker ps", << >>, success))
          /\ IF DaemonCheckFailed(success)
             THEN /\ Finish("probe_failed")
                  /\ docker_available' = FALSE
             ELSE /\ pc' = "gpu"
                  /\ outcome' = outcome
                  /\ docker_available' = TRUE
    /\ UNCHANGED << selectVars, gpu_available, healthVars, selected_services,
                    summaryShown, interrupted >>

\* install.py:176-187 and 407: nvidia-smi; the marker is 'NVIDIA' in output
CheckGpu ==
    /\ pc = "gpu"
    /\ \E success \in BOOLEAN, marker \in BOOLEAN :
          /\ invoked' = Append(invoked, Call("nvidia-smi", << >>, success))
          /\ gpu_available' = (success /\ marker)
    /\ pc' = "prompt"
    /\ UNCHANGED << selectVars, docker_available, healthVars, selected_services,
                    outcome, summaryShown, interrupted >>

(* ------------------------------------------------------------------ *)
(* select_services (install.py:189-234)                               *)
(* ------------------------------------------------------------------ *)

CountPrompt(n) == IF n < PromptCap THEN n + 1 ELSE n

\* install.py:200  choice = input(...).strip()
ReadChoice ==
    /\ pc = "prompt"
    /\ \E line \in Lines : choice' = Strip(line)
    /\ prompts' = CountPrompt(prompts)
    /\ pc' = "parse"
    /\ UNCHANGED << selected, chosen, probeVars, healthVars, selected_services,
                    outcome, invoked, summaryShown, interrupted >>

\* install.py:200 with standard input at end of file: input() raises
\* EOFError, which run() reports as an unexpected error (427-429).
ReadChoiceEOF ==
    /\ pc = "prompt"
    /\ prompts' = CountPrompt(prompts)
    /\ Finish("unexpected_error")
    /\ UNCHANGED << selected, choice, chosen, probeVars, healthVars,
                    selected_services, invoked, summaryShown, interrupted >>

\* install.py:202-226  one round of the while loop after the read
ParseChoice ==
    /\ pc = "parse"
    /\ IF IsAllChoice(choice)
       THEN /\ selected' = SelectAll(selected)
            /\ pc' = "show_selected"
            /\ UNCHANGED << choice, outcome >>
       ELSE IF choice # << >>
       THEN LET cleaned == Cleaned(choice)
                applied == ApplyChars(ResetSelections(selected), cleaned)
            IN  /\ selected' = applied
                /\ IF Raises(cleaned)
                   THEN Finish("unexpected_error") /\ choice' = NoChoice
                   ELSE IF AnySelected(applied)
                   THEN pc' = "show_selected" /\ UNCHANGED << choice, outcome >>
                   ELSE pc' = "prompt" /\ choice' = NoChoice /\ outcome' = outcome
       ELSE /\ pc' = "prompt"
            /\ choice' = NoChoice
            /\ UNCHANGED << selected, outcome >>
    /\ UNCHANGED << prompts, chosen, probeVars, healthVars, selected_services,
                    invoked, summaryShown, interrupted >>

\* install.py:228-234  list the selection, sleep 2 s, return
ShowSelected ==
    /\ pc = "show_selected"
    /\ chosen' = SelectedSet(selected)
    /\ choice' = NoChoice
    /\ pc' = "deploy"
    /\ UNCHANGED << selected, prompts, probeVars, healthVars, selected_services,
                    outcome, invoked, summaryShown, interrupted >>

(* ------------------------------------------------------------------ *)
(* deploy_services (install.py:236-268)                               *)
(* ------------------------------------------------------------------ *)

\* install.py:241-247  build the list; an empty list fails the run
DeployBegin ==
    /\ pc = "deploy"
    /\ selected_services' = SelectedList(selected)
    /\ IF SelectedList(selected) = << >>
       THEN Finish("no_services")
       ELSE pc' = "pull" /\ outcome' = outcome
    /\ UNCHANGED << selectVars, probeVars, healthVars, invoked, summaryShown,
                    interrupted >>

\* the early return forgotten: a failed pull is ignored.
PullFailed_Never(success) == FALSE

\* install.py:254  if not success
PullFailed(success) == ~success

\* install.py:263  if not success
UpFailed(success) == ~success

\* install.py:251-256  docker compose pull <selected_services>
Pull ==
    /\ pc = "pull"
    /\ \E success \in BOOLEAN :
          /\ invoked' = Append(invoked,
                  Call("docker compose pull", selected_services, success))
          /\ IF PullFailed(success)
             THEN Finish("deploy_failed")
             ELSE pc' = "up" /\ outcome' = outcome
    /\ UNCHANGED << selectVars, probeVars, healthVars, selected_services,
                    summaryShown, interrupted >>

\* install.py:260-268  docker compose up -d <selected_services>
Up ==
    /\ pc = "up"
    /\ \E success \in BOOLEAN :
          /\ invoked' = Append(invoked,
                  Call("docker compose up -d", selected_services, success))
          /\ IF UpFailed(success)
             THEN Finish("deploy_failed")
             ELSE pc' = "health_round" /\ outcome' = outcome
    /\ UNCHANGED << selectVars, probeVars, healthVars, selected_services,
                    summaryShown, interrupted >>

(* ------------------------------------------------------------------ *)
(* check_service_health and wait_for_services (install.py:270-314)    *)
(* ------------------------------------------------------------------ *)

\* What urllib.request.urlopen does with one request: it returns a
\* response with a status code, or raises (HTTPError for an error status,
\* URLError for a refused connection, a timeout after 5 s, or the
\* operator's KeyboardInterrupt while the request is blocked).
UrlOutcomes ==
    { [exc |-> "none", code |-> 200],
      [exc |-> "none", code |-> 204],
      [exc |-> "HTTPError", code |-> 500],
      [exc |-> "URLError", code |-> 0],
      [exc |-> "timeout", code |-> 0],
      [exc |-> "KeyboardInterrupt", code |-> 0] }

\* install.py:272-281  bare except: every exception is False
check_service_health(o) ==
    IF o.exc # "none" THEN FALSE ELSE o.code = 200

\* the selection test forgotten: every catalog entry is polled.
Skipped_Never(sel, id) == FALSE

\* install.py:294  if not service['selected']: continue
Skipped(sel, id) == ~sel[id]

\* The catalog positions from i on that the inner loop does not skip.
Pending(sel, i) ==
    { j \in i..Len(service_list) : ~Skipped(sel, service_list[j]) }

Min(S) == CHOOSE x \in S : \A y \in S : x <= y

\* the last round dropped from the budget.
LoopContinues_OneLess(a) == a < max_attempts - 1

\* install.py:290  for attempt in range(max_attempts)
LoopContinues(a) == a < max_attempts

\* the healthy round not noticed: the loop goes on.
RoundHealthy_Never(flag) == FALSE

\* install.py:305  if all_healthy
RoundHealthy(flag) == flag

\* a timeout of the health poller made fatal.
WaitFails_OnTimeout(r) == r = "timeout"

\* install.py:417  run() discards what wait_for_services returns
WaitFails(r) == FALSE

\* wait_for_services returns with result r and run() goes on (417-420).
ReturnFromWait(r) ==
    /\ waitResult' = r
    /\ IF WaitFails(r)
       THEN Finish("health_failed")
       ELSE pc' = "summary" /\ outcome' = outcome

\* install.py:290-291 the top of the outer loop, and 312-314 when the
\* attempts are used up
RoundBegin ==
    /\ pc = "health_round"
    /\ IF LoopContinues(attempt)
       THEN /\ all_healthy' = TRUE
            /\ idx' = 1
            /\ roundLog' = << >>
            /\ rounds' = rounds + 1
            /\ pc' = "health_iter"
            /\ UNCHANGED << outcome, waitResult >>
       ELSE /\ ReturnFromWait("timeout")
            /\ UNCHANGED << all_healthy, idx, roundLog, rounds >>
    /\ UNCHANGED << selectVars, probeVars, attempt, polled, sleeps,
                    selected_services, invoked, summaryShown, interrupted >>

\* the break forgotten: after an unhealthy answer the inner loop goes on
\* to the next selected entry.
HealthCheck_NoBreak ==
    /\ pc = "health_iter"
    /\ Pending(selected, idx) # {}
    /\ LET j  == Min(Pending(selected, idx))
           id == service_list[j]
       IN  \E o \in UrlOutcomes :
             /\ roundLog' = Append(roundLog,
                     [id |-> id, port |-> Catalog[id].port,
                      path |-> Catalog[id].health_path, o |-> o])
             /\ polled' = polled \cup {id}
             /\ interrupted' = (interrupted \/ o.exc = "KeyboardInterrupt")
             /\ all_healthy' = (all_healthy /\ check_service_health(o))
             /\ idx' = j + 1
             /\ pc' = "health_iter"
    /\ UNCHANGED << selectVars, probeVars, attempt, rounds, sleeps, waitResult,
                    selected_services, outcome, invoked, summaryShown >>

\* install.py:293-303  the next entry the inner loop does not skip gets
\* one request; an unhealthy answer breaks out of the inner loop
HealthCheck ==
    /\ pc = "health_iter"
    /\ Pending(selected, idx) # {}
    /\ LET j  == Min(Pending(selected, idx))
           id == service_list[j]
       IN  \E o \in UrlOutcomes :
             /\ roundLog' = Append(roundLog,
                     [id |-> id, port |-> Catalog[id].port,
                      path |-> Catalog[id].health_path, o |-> o])
             /\ polled' = polled \cup {id}
             /\ interrupted' = (interrupted \/ o.exc = "KeyboardInterrupt")
             /\ IF check_service_health(o)
                THEN /\ idx' = j + 1
                     /\ pc' = "health_iter"
                     /\ UNCHANGED all_healthy
                ELSE /\ all_healthy' = FALSE
                     /\ pc' = "round_end"
                     /\ UNCHANGED idx
    /\ UNCHANGED << selectVars, probeVars, attempt, rounds, sleeps, waitResult,
                    selected_services, outcome, invoked, summaryShown >>

\* install.py:305-309  after the inner loop (ended or broken out of)
RoundEnd ==
    /\ \/ pc = "round_end"
       \/ pc = "health_iter" /\ Pending(selected, idx) = {}
    /\ IF RoundHealthy(all_healthy)
       THEN ReturnFromWait("healthy")
       ELSE pc' = "health_sleep" /\ UNCHANGED << outcome, waitResult >>
    /\ UNCHANGED << selectVars, probeVars, attempt, idx, all_healthy, roundLog,
                    rounds, polled, sleeps, selected_services, invoked,
                    summaryShown, interrupted >>

\* install.py:310  time.sleep(5), then the next value of attempt
Sleep ==
    /\ pc = "health_sleep"
    /\ sleeps' = sleeps + 1
    /\ attempt' = attempt + 1
    /\ pc' = "health_round"
    /\ UNCHANGED << selectVars, probeVars, idx, all_healthy, roundLog, rounds,
                    polled, waitResult, selected_services, outcome, invoked,
                    summaryShown, interrupted >>

(* ------------------------------------------------------------------ *)
(* show_success_message (install.py:316-390) and the end of run()     *)
(* ------------------------------------------------------------------ *)

\* install.py:318-382  the summary; without a selected service there is
\* no browser prompt and run() returns True
ShowSuccess ==
    /\ pc = "summary"
    /\ summaryShown' = TRUE
    /\ IF AnySelected(selected)
       THEN pc' = "final_prompt" /\ outcome' = outcome
       ELSE Finish("success")
    /\ UNCHANGED << selectVars, probeVars, healthVars, selected_services,
                    invoked, interrupted >>

\* What the 'press Enter' read can do.
PromptOutcomes == { "enter", "EOFError", "KeyboardInterrupt" }

\* install.py:383-390 and 422: the browser prompt inside try / bare
\* except, then return True
FinalPrompt ==
    /\ pc = "final_prompt"
    /\ \E o \in PromptOutcomes :
          interrupted' = (interrupted \/ o = "KeyboardInterrupt")
    /\ Finish("success")
    /\ UNCHANGED << selectVars, probeVars, healthVars, selected_services,
                    invoked, summaryShown >>

\* Where a KeyboardInterrupt reaches the handler of run(): everywhere
\* but inside the try of the browser prompt (and inside
\* check_service_health, which HealthCheck covers).
Interruptible == pc \notin { "exit", "final_prompt" }

\* install.py:424-426  except KeyboardInterrupt: return False
Interrupt ==
    /\ Interruptible
    /\ interrupted' = TRUE
    /\ Finish("cancelled")
    /\ choice' = NoChoice
    /\ UNCHANGED << selected, prompts, chosen, probeVars, healthVars,
                    selected_services, invoked, summaryShown >>

(* ------------------------------------------------------------------ *)
(* Specifications                                                     *)
(* ------------------------------------------------------------------ *)

Next ==
    \/ Banner
    \/ CheckDockerVersion
    \/ CheckDockerPs
    \/ CheckGpu
    \/ ReadChoice
    \/ ReadChoiceEOF
    \/ ParseChoice
    \/ ShowSelected
    \/ DeployBegin
    \/ Pull
    \/ Up
    \/ RoundBegin
    \/ HealthCheck
    \/ RoundEnd
    \/ Sleep
    \/ ShowSuccess
    \/ FinalPrompt
    \/ Interrupt

\* main(): one installer, one call of run() (install.py:456-458).
Spec == Init /\ [][Next]_vars

\* select_services as a method of an installer whose selection flags are
\* in any state (a second call on the same object).
SelectInit ==
    /\ pc = "prompt"
    /\ selected \in [ServiceIds -> BOOLEAN]
    /\ docker_available = TRUE
    /\ gpu_available \in BOOLEAN
    /\ choice = NoChoice
    /\ selected_services = << >>
    /\ attempt = 0
    /\ idx = 0
    /\ all_healthy = FALSE
    /\ outcome = "running"
    /\ invoked = << >>
    /\ prompts = 0
    /\ chosen = {}
    /\ roundLog = << >>
    /\ rounds = 0
    /\ polled = {}
    /\ sleeps = 0
    /\ waitResult = "none"
    /\ summaryShown = FALSE
    /\ interrupted = FALSE

SelectNext ==
    \/ ReadChoice
    \/ ReadChoiceEOF
    \/ ParseChoice
    \/ ShowSelected

SelectSpec == SelectInit /\ [][SelectNext]_vars

(* ------------------------------------------------------------------ *)
(* Properties                                                         *)
(* ------------------------------------------------------------------ *)

AllSelected(sel) == \A id \in ServiceIds : sel[id]

Invoked(cmd) == { i \in 1..Len(invoked) : invoked[i].cmd = cmd }

Failed(cmd) == \E i \in Invoked(cmd) : ~invoked[i].ok

Succeeded(cmd) == \E i \in Invoked(cmd) : invoked[i].ok

\* C1: an operator interrupt delivered at any point of run() aborts the
\* run at once: after it the run is over and the process exit code is 1.
C1_InterruptAbortsRun ==
    interrupted => (pc = "exit" /\ ExitCode = 1)

\* C2 (as claimed): the token "all" in any letter case selects every
\* service and ends the prompt loop.
C2_AllTokenAnyCase ==
    [][ (pc = "parse" /\ Upper(choice) = << "A", "L", "L" >>)
          => (pc' = "show_selected" /\ AllSelected(selected')) ]_vars

\* C2 (amended): the single letter "a" or "A" (surrounding blanks
\* stripped) selects every service, whatever the flags were, and ends the
\* prompt loop.
C2_LetterASelectsAll ==
    [][ (pc = "parse" /\ choice \in { << "a" >>, << "A" >> })
          => (pc' = "show_selected" /\ AllSelected(selected')) ]_vars

C2_Witness ==
    /\ pc = "show_selected"
    /\ choice = << "a" >>
    /\ AllSelected(selected)

\* The decimal digit that names catalog position i at the prompt.
DigitOf(i) ==
    CASE i = 1 -> "1"
      [] i = 2 -> "2"
      [] i = 3 -> "3"

\* An explicit selection: decimal digits, commas and blanks only, with at
\* least one digit in 1..3.
ExplicitInput(s) ==
    /\ SeqToSet(s) \subseteq { "0", "1", "2", "3", "4", ",", " " }
    /\ \E i \in 1..Len(service_list) : DigitOf(i) \in SeqToSet(s)

\* The services whose 1-based catalog position occurs in s.
Named(s) ==
    [ id \in ServiceIds |->
        \E i \in 1..Len(service_list) :
            service_list[i] = id /\ DigitOf(i) \in SeqToSet(s) ]

\* C3: after an explicit input with k >= 1 distinct in-range digits the
\* prompt loop ends with exactly the services at those positions
\* selected, whatever the flags were before and whatever out-of-range
\* digits the input holds.
C3_ExactSelection ==
    [][ (pc = "parse" /\ ExplicitInput(choice))
          => (pc' = "show_selected" /\ selected' = Named(choice)) ]_vars

C3_Witness ==
    /\ pc = "show_selected"
    /\ choice = << "1", ",", "3" >>
    /\ SelectedSet(selected) = { "clara_comfyui", "clara_n8n" }

\* C4: the prompt loop is left, and deploy_services entered, only with
\* at least one service selected; the 'no services selected' branch of
\* deploy_services is never taken.
C4_NeverDeployEmpty ==
    /\ pc \in { "show_selected", "deploy" } => SelectedSet(selected) # {}
    /\ pc \in { "pull", "up" } => selected_services # << >>
    /\ outcome # "no_services"

C4_Witness ==
    /\ pc = "deploy"
    /\ prompts >= 2
    /\ SelectedSet(selected) # {}

\* C5: after a failed runtime probe there is no selection prompt, no
\* pull and no start, and the run has ended with exit code 1; a pull is
\* only invoked after both probe commands succeeded.
C5_ProbeGate ==
    /\ (Failed("docker --version") \/ Failed("docker ps"))
          => /\ prompts = 0
             /\ Invoked("docker compose pull") = {}
             /\ Invoked("docker compose up -d") = {}
             /\ pc = "exit"
             /\ ExitCode = 1
    /\ \A i \in Invoked("docker compose pull") :
          /\ \E j \in 1..(i - 1) :
                invoked[j].cmd = "docker --version" /\ invoked[j].ok
          /\ \E j \in 1..(i - 1) :
                invoked[j].cmd = "docker ps" /\ invoked[j].ok

C5_Witness ==
    /\ pc = "exit"
    /\ outcome = "probe_failed"
    /\ Succeeded("docker --version")
    /\ Failed("docker ps")

\* C6: pull and start are each invoked at most once, start only after a
\* successful pull; a failed step ends the run with exit code 1, with no
\* health round and no success summary.
C6_DeployShortCircuit ==
    /\ Cardinality(Invoked("docker compose pull")) <= 1
    /\ Cardinality(Invoked("docker compose up -d")) <= 1
    /\ \A i \in Invoked("docker compose up -d") :
          \E j \in 1..(i - 1) :
             invoked[j].cmd = "docker compose pull" /\ invoked[j].ok
    /\ (Failed("docker compose pull") \/ Failed("docker compose up -d"))
          => /\ pc = "exit"
             /\ ExitCode = 1
             /\ rounds = 0
             /\ polled = {}
             /\ ~summaryShown
    /\ Failed("docker compose pull") => Invoked("docker compose up -d") = {}

C6_Witness ==
    /\ pc = "exit"
    /\ outcome = "deploy_failed"
    /\ Failed("docker compose pull")

DeployCalls == Invoked("docker compose pull") \cup Invoked("docker compose up -d")

\* wait_for_services has returned to run().
WaitReturned == waitResult # "none"

\* C7 (as claimed): in every run the identifiers pulled, the identifiers
\* started and the services whose health endpoint was requested are all
\* the selected subset, and the flags do not change after the prompt.
C7_AllSetsEqual ==
    /\ \A i \in DeployCalls : SeqToSet(invoked[i].args) = chosen
    /\ chosen # {} => SelectedSet(selected) = chosen
    /\ WaitReturned => polled = chosen

\* C7 (amended): pull and start get exactly the selected subset, the
\* flags do not change after the prompt, and the services whose health
\* endpoint is requested are always among the selected ones: all of them
\* once a round was healthy, possibly fewer when the poller times out.
C7_SelectedOnly ==
    /\ \A i \in DeployCalls :
          /\ SeqToSet(invoked[i].args) = chosen
          /\ Len(invoked[i].args) = Cardinality(chosen)
    /\ chosen # {} => SelectedSet(selected) = chosen
    /\ polled \subseteq chosen
    /\ \A k \in 1..Len(roundLog) : roundLog[k].id \in chosen
    /\ waitResult = "healthy" => polled = chosen

C7_Witness ==
    /\ waitResult = "healthy"
    /\ chosen = { "clara_comfyui", "clara_n8n" }
    /\ polled = chosen
    /\ Cardinality(DeployCalls) = 2

\* C8: a timeout of the health poller is not fatal: the run goes on to
\* the success summary and exits with code 0 unless it is cancelled; the
\* exit code is 1 only after a probe failure, a pull/start failure, a
\* cancellation or an unexpected error.
C8_TimeoutNotFatal ==
    /\ (waitResult = "timeout" /\ pc # "exit")
          => pc \in { "summary", "final_prompt" }
    /\ (waitResult = "timeout" /\ pc = "exit" /\ outcome # "cancelled")
          => (ExitCode = 0 /\ summaryShown)
    /\ (pc = "exit" /\ ExitCode = 1)
          => outcome \in { "probe_failed", "deploy_failed", "cancelled",
                           "unexpected_error" }

C8_Witness ==
    /\ pc = "exit"
    /\ waitResult = "timeout"
    /\ ExitCode = 0
    /\ summaryShown

\* The answer recorded in a round's log is HTTP 200.
Answered200(e) == e.o.exc = "none" /\ e.o.code = 200

\* The current round has requested every selected service once, in
\* catalog order, and each answered 200.
FullyHealthyRound ==
    /\ [ k \in 1..Len(roundLog) |-> roundLog[k].id ] = SelectedList(selected)
    /\ \A k \in 1..Len(roundLog) : Answered200(roundLog[k])

\* C9: wait_for_services returns success at the end of the first round
\* in which every selected service answered 200, with no sleep and no
\* request after that round; when that is round 1, after exactly one
\* request per selected service and no sleep at all.
C9_ReturnsOnHealthyRound ==
    /\ waitResult = "healthy"
          => /\ FullyHealthyRound
             /\ sleeps = rounds - 1
    /\ (waitResult = "healthy" /\ rounds = 1)
          => (sleeps = 0 /\ Len(roundLog) = Cardinality(chosen))
    /\ (rounds >= 1 /\ FullyHealthyRound)
          => pc \in { "health_iter", "summary", "final_prompt", "exit" }
    /\ (rounds >= 1 /\ FullyHealthyRound /\ pc = "exit" /\ outcome # "cancelled")
          => waitResult = "healthy"

C9_Witness ==
    /\ waitResult = "healthy"
    /\ rounds = 1
    /\ sleeps = 0
    /\ Len(roundLog) = 3
    /\ pc = "summary"

\* C10 (as claimed): the poller times out after exactly max_attempts
\* rounds with a sleep only between two consecutive rounds, none after
\* the last one.
C10_NoSleepAfterLastRound ==
    waitResult = "timeout"
       => (rounds = max_attempts /\ sleeps = max_attempts - 1)

\* C10 (amended): the poller times out after exactly max_attempts rounds,
\* none of them healthy, and a 5-second sleep follows every unhealthy
\* round, the last one included: max_attempts sleeps in all.
C10_SleepAfterEveryRound ==
    /\ waitResult = "timeout"
          => /\ rounds = max_attempts
             /\ sleeps = max_attempts
             /\ ~FullyHealthyRound
    /\ pc \in { "health_iter", "round_end", "health_sleep" }
          => (sleeps = rounds - 1 /\ rounds <= max_attempts)
    /\ pc = "health_round" => sleeps = rounds

C10_Witness ==
    /\ waitResult = "timeout"
    /\ pc = "summary"
    /\ rounds = max_attempts
    /\ sleeps = max_attempts

\* C11: within a health round the selected services are requested in
\* catalog order, one request each, and the round stops at the first
\* unhealthy answer: only the last request of a round can be a failing
\* one, an unhealthy round ends on its failing request, and a round is
\* reported healthy only if every selected service was requested and
\* answered 200 in it.
C11_RoundStopsAtFirstUnhealthy ==
    /\ Len(roundLog) <= Len(SelectedList(selected))
    /\ \A k \in 1..Len(roundLog) : roundLog[k].id = SelectedList(selected)[k]
    /\ \A k \in 1..(Len(roundLog) - 1) : Answered200(roundLog[k])
    /\ pc \in { "round_end", "health_sleep" }
          => (roundLog # << >> /\ ~Answered200(roundLog[Len(roundLog)]))
    /\ waitResult = "healthy"
          => /\ Len(roundLog) = Len(SelectedList(selected))
             /\ \A k \in 1..Len(roundLog) : Answered200(roundLog[k])

C11_Witness ==
    /\ pc = "health_sleep"
    /\ chosen = ServiceIds
    /\ Len(roundLog) = 2
    /\ Answered200(roundLog[1])
    /\ ~Answered200(roundLog[2])
    /\ roundLog[2].id = "clara_python"

=============================================================================
